---- MODULE Spec2Model ----
(***************************************************************************)
(* State-machine model of UDLAuthenticator (src/src/index.ts, lines        *)
(* 58-410): the credential file, the scrypt password hasher, the           *)
(* permission catalog, the in-memory session table and the current-session *)
(* marker.  In Spec every public method is one atomic action (sequential   *)
(* callers) and the file system does not fail; FaultSpec adds the          *)
(* authenticateUser calls whose login or file rewrite is refused;          *)
(* AwaitSpec and StoreAwaitSpec split the methods at their awaits and let  *)
(* the calls of two callers overlap.                                       *)
(***************************************************************************)
EXTENDS Integers, Sequences, FiniteSets, TLC

VARIABLES
  now,              \* the wall clock, Date.now(), in milliseconds
  credentialsFile,  \* <<>> when credentials.json is absent, <<record>> otherwise
  sessions,         \* this.sessions : Map<string, AuthSession>
  currentSession,   \* this.currentSession : <<>> (undefined) or <<session>>
  nextSessionId,    \* number of session ids drawn so far by generateSessionId
  udlRevocations,   \* sessions handed to revokeTokensWithUDL, in call order
  lastStore,        \* history: <<>> or <<[username, password]>> of the latest storeCredentials
  lastOp,           \* history: the latest call, its arguments and its outcome
  inFlight          \* per caller: <<>> or <<frame>> of its call suspended at an await

vars == <<now, credentialsFile, sessions, currentSession, nextSessionId,
          udlRevocations, lastStore, lastOp, inFlight>>

----------------------------------------------------------------------------
(* Bounds of the model *)

MaxTicks == 2
MaxSessions == 2
MaxRefreshes == 1
MaxCallers == 2

(* The clock advances in steps of eight hours, so that a session issued on a
   tick reaches its expiresAt exactly on the next tick. *)
ClockStep == 8 * 60 * 60 * 1000

SessionLifetimeMs == 8 * 60 * 60 * 1000

MsPerDay == 24 * 60 * 60 * 1000

----------------------------------------------------------------------------
(* Optional values: undefined / null is the empty sequence *)

None == <<>>

Some(x) == <<x>>

Range(s) == {s[i] : i \in 1..Len(s)}

----------------------------------------------------------------------------
(* Dates: toISOString() writes a date part and a time-of-day part with
   millisecond precision; new Date(string) reads them back. *)

toISOString(ms) == [date |-> ms \div MsPerDay, time |-> ms % MsPerDay]

parseDate(iso) == iso.date * MsPerDay + iso.time

----------------------------------------------------------------------------
(* Byte buffers and their hex encoding *)

HexDigits == <<"0", "1", "2", "3", "4", "5", "6", "7",
               "8", "9", "a", "b", "c", "d", "e", "f">>

HexValues == [ch \in Range(HexDigits) |-> CHOOSE v \in 0..15 : HexDigits[v + 1] = ch]

HexValue(ch) == HexValues[ch]

\* Buffer.toString('hex'): two lower-case hex digits per byte
toHex(bytes) ==
  [i \in 1..(2 * Len(bytes)) |->
     IF i % 2 = 1 THEN HexDigits[(bytes[(i + 1) \div 2] \div 16) + 1]
                  ELSE HexDigits[(bytes[i \div 2] % 16) + 1]]

\* Buffer.from(text, 'hex')
fromHex(text) ==
  [i \in 1..(Len(text) \div 2) |->
     16 * HexValue(text[2 * i - 1]) + HexValue(text[2 * i])]

\* scrypt(password, salt, keylen): a deterministic key derivation, taken to be
\* free of collisions: the key determines the password bytes and the salt.
scrypt(password, salt) == [i \in 1..Len(password \o salt) |-> ((password \o salt)[i] + 7 * i) % 256]

\* crypto.timingSafeEqual on two buffers of equal length
timingSafeEqual(a, b) == Len(a) = Len(b) /\ \A i \in 1..Len(a) : a[i] = b[i]

hashPassword(password, passwordSalt) ==
  [hash |-> toHex(scrypt(password, passwordSalt)), salt |-> toHex(passwordSalt)]

\* a variant that compares the stored hash with itself
verifyPasswordSelfCompare(password, hash, salt) ==
  LET saltBuffer == fromHex(salt)
      hashBuffer == fromHex(hash)
      inputHash == scrypt(password, saltBuffer)
  IN timingSafeEqual(hashBuffer, hashBuffer)

verifyPassword(password, hash, salt) ==
  LET saltBuffer == fromHex(salt)
      hashBuffer == fromHex(hash)
      inputHash == scrypt(password, saltBuffer)
  IN timingSafeEqual(hashBuffer, inputHash)

----------------------------------------------------------------------------
(* Permission strings.  A string is the sequence of its pieces: each piece is
   a ":" or a maximal run of other characters, so 'objects:get' is
   <<"objects", ":", "get">> and '*' is <<"*">>. *)

Colon == ":"

perm(resource, action) == <<resource, Colon, action>>

\* String.prototype.split(':')[0]: the text before the first ':'
splitFirst(str) ==
  LET colons == {i \in 1..Len(str) : str[i] = Colon}
  IN IF colons = {} THEN str
     ELSE SubSeq(str, 1, (CHOOSE i \in colons : \A j \in colons : i <= j) - 1)

\* Array.prototype.includes
includes(list, x) == \E i \in 1..Len(list) : list[i] = x

Wildcard == <<"*">>

basePermissions ==
  << perm("catalog", "read"),
     perm("objects", "search"),
     perm("objects", "get"),
     perm("tle", "read") >>

\* a variant whose cui tier lacks analysis:read
getPermissionsCuiIncomplete(classification) ==
  CASE classification = "unclassified" ->
         basePermissions \o << perm("predictions", "read") >>
    [] classification = "cui" ->
         basePermissions \o << perm("predictions", "read"),
                               perm("conjunctions", "read"),
                               perm("sensors", "read") >>
    [] classification = "secret" ->
         basePermissions \o << perm("predictions", "read"),
                               perm("conjunctions", "read"),
                               perm("sensors", "read"),
                               perm("analysis", "read"),
                               perm("classifications", "all"),
                               perm("spacefence", "read"),
                               perm("intelligence", "read") >>
    [] OTHER -> basePermissions

\* a variant whose default case returns the unclassified tier
getPermissionsDefaultUnclassified(classification) ==
  CASE classification = "cui" ->
         basePermissions \o << perm("predictions", "read"),
                               perm("conjunctions", "read"),
                               perm("sensors", "read"),
                               perm("analysis", "read") >>
    [] classification = "secret" ->
         basePermissions \o << perm("predictions", "read"),
                               perm("conjunctions", "read"),
                               perm("sensors", "read"),
                               perm("analysis", "read"),
                               perm("classifications", "all"),
                               perm("spacefence", "read"),
                               perm("intelligence", "read") >>
    [] OTHER -> basePermissions \o << perm("predictions", "read") >>

getPermissionsForClassification(classification) ==
  CASE classification = "unclassified" ->
         basePermissions \o << perm("predictions", "read") >>
    [] classification = "cui" ->
         basePermissions \o << perm("predictions", "read"),
                               perm("conjunctions", "read"),
                               perm("sensors", "read"),
                               perm("analysis", "read") >>
    [] classification = "secret" ->
         basePermissions \o << perm("predictions", "read"),
                               perm("conjunctions", "read"),
                               perm("sensors", "read"),
                               perm("analysis", "read"),
                               perm("classifications", "all"),
                               perm("spacefence", "read"),
                               perm("intelligence", "read") >>
    [] OTHER -> basePermissions

\* a variant without the prefix wildcard
permissionGrantedNoPrefix(permissions, permission) ==
  \/ includes(permissions, permission)
  \/ includes(permissions, Wildcard)

\* the final expression of validatePermission
permissionGranted(permissions, permission) ==
  \/ includes(permissions, permission)
  \/ includes(permissions, Wildcard)
  \/ includes(permissions, splitFirst(permission) \o <<Colon, "*">>)

----------------------------------------------------------------------------
(* Inputs *)

Usernames == {"alice", "bob"}

\* passwords as their bytes ("sp", "wp")
Passwords == {<<115, 112>>, <<119, 112>>}

\* The calls of storeCredentials, each with the salt randomBytes(32) returns in
\* it.  The tool arguments reach storeCredentials unchecked, so one
\* classification is a string outside the three tiers.  Each username occurs
\* with both passwords and each password with both salts.
StoreCalls ==
  { [username |-> "alice", password |-> <<115, 112>>,
     classification |-> "unclassified", randomSalt |-> <<10>>],
    [username |-> "alice", password |-> <<119, 112>>,
     classification |-> "cui", randomSalt |-> <<243>>],
    [username |-> "bob", password |-> <<115, 112>>,
     classification |-> "secret", randomSalt |-> <<243>>],
    [username |-> "bob", password |-> <<119, 112>>,
     classification |-> "confidential", randomSalt |-> <<10>>] }

DefaultApiEndpoint == "https://unifieddatalibrary.com/api"

\* credentials.apiEndpoint is optional
ApiEndpoints == {None}

QueriedPermissions ==
  { perm("objects", "get"), perm("spacefence", "read"),
    perm("intelligence", "read") }

\* a variant whose draws repeat
generateSessionIdRepeats(n) == toHex(<<1>>)

\* generateSessionId: 256 random bits, taken never to repeat; the n-th draw is
\* the bytes of n
generateSessionId(n) == toHex(<<n>>)

\* generateApiToken: 384 random bits, taken never to repeat; a draw is named by
\* the session it is made for, its use and the number of refreshes before it
generateApiToken(use, sessionId, n) == <<use, sessionId, n>>

\* how many times the access token was replaced
refreshCount(session) == session.accessToken[3]

SessionIds == {generateSessionId(n) : n \in 1..MaxSessions}

\* logout(sessionId?: string): no argument, the empty string, or a session id
LogoutArguments == {None, Some(<<>>)} \cup {Some(id) : id \in SessionIds}

----------------------------------------------------------------------------
(* Error messages thrown by the methods *)

ErrNoCredentials == "No stored credentials found. Please configure UDL credentials first."

ErrInvalidUsername == "Invalid username"

ErrInvalidPassword == "Invalid password"

ErrSessionNotFound == "Session not found"

ErrSessionExpired == "Session expired"

ErrNotAuthenticated == "Not authenticated"

NoError == "none"

\* in the record of a call: the call is suspended at an await
Pending == "pending"

\* the callers whose calls can be in flight at the same time
Callers == 1..MaxCallers

\* the record of a call: its name, arguments, the error thrown (or NoError), the
\* value returned, the clock at the call and the private methods it invoked
Call(op, args, err, ret, calls) ==
  [op |-> op, args |-> args, err |-> err, ret |-> ret, at |-> now, calls |-> calls]

----------------------------------------------------------------------------
(* Initial state: a new UDLAuthenticator over an empty credentials directory *)

Init ==
  /\ now = 0
  /\ credentialsFile = None
  /\ sessions = <<>>
  /\ currentSession = None
  /\ nextSessionId = 0
  /\ udlRevocations = <<>>
  /\ lastStore = None
  /\ lastOp = Call("new", <<>>, NoError, None, <<>>)
  /\ inFlight = [c \in Callers |-> None]

\* time passes between two calls
Tick ==
  /\ now + ClockStep <= MaxTicks * ClockStep
  /\ now' = now + ClockStep
  /\ lastOp' = [op |-> "tick", args |-> <<>>, err |-> NoError, ret |-> None,
                at |-> now + ClockStep, calls |-> <<>>]
  /\ UNCHANGED <<credentialsFile, sessions, currentSession, nextSessionId,
                 udlRevocations, lastStore, inFlight>>

----------------------------------------------------------------------------
(* The credential file *)

loadCredentials == credentialsFile

\* a variant that drops the current session when the credentials change
storeCredentialsLogsOut(username, password, classification, apiEndpoint, randomSalt) ==
  LET hashed == hashPassword(password, randomSalt)
      stored == [ username |-> username,
                  passwordHash |-> hashed.hash,
                  salt |-> hashed.salt,
                  classification |-> classification,
                  apiEndpoint |-> IF apiEndpoint = None THEN DefaultApiEndpoint
                                  ELSE apiEndpoint[1],
                  createdAt |-> toISOString(now),
                  lastUsed |-> None ]
  IN /\ credentialsFile' = Some(stored)
     /\ lastStore' = Some([username |-> username, password |-> password])
     /\ currentSession' = None
     /\ lastOp' = Call("storeCredentials", <<username, password, classification>>,
                       NoError, None, <<"hashPassword">>)
     /\ UNCHANGED <<now, sessions, nextSessionId, udlRevocations, inFlight>>

storeCredentials(username, password, classification, apiEndpoint, randomSalt) ==
  LET hashed == hashPassword(password, randomSalt)
      stored == [ username |-> username,
                  passwordHash |-> hashed.hash,
                  salt |-> hashed.salt,
                  classification |-> classification,
                  apiEndpoint |-> IF apiEndpoint = None THEN DefaultApiEndpoint
                                  ELSE apiEndpoint[1],
                  createdAt |-> toISOString(now),
                  lastUsed |-> None ]
  IN /\ credentialsFile' = Some(stored)
     /\ lastStore' = Some([username |-> username, password |-> password])
     /\ lastOp' = Call("storeCredentials", <<username, password, classification>>,
                       NoError, None, <<"hashPassword">>)
     /\ UNCHANGED <<now, sessions, currentSession, nextSessionId,
                    udlRevocations, inFlight>>

\* a variant that rethrows ENOENT when there is no file to unlink
clearStoredCredentialsThrowsIfAbsent ==
  /\ credentialsFile' = None
  /\ lastStore' = None
  /\ lastOp' = Call("clearStoredCredentials", <<>>,
                    IF credentialsFile = None
                      THEN "Failed to clear credentials: ENOENT" ELSE NoError,
                    None, <<>>)
  /\ UNCHANGED <<now, sessions, currentSession, nextSessionId,
                 udlRevocations, inFlight>>

clearStoredCredentials ==
  /\ credentialsFile' = None
  /\ lastStore' = None
  /\ lastOp' = Call("clearStoredCredentials", <<>>, NoError, None, <<>>)
  /\ UNCHANGED <<now, sessions, currentSession, nextSessionId,
                 udlRevocations, inFlight>>

----------------------------------------------------------------------------
(* Sessions *)

\* Map.delete
mapDelete(map, key) == [k \in (DOMAIN map) \ {key} |-> map[k]]

\* Map.set
mapSet(map, key, value) ==
  [k \in (DOMAIN map) \cup {key} |-> IF k = key THEN value ELSE map[k]]

\* a variant that also treats a session as expired at the instant of expiresAt
isExpiredAtDeadline(session) == now >= parseDate(session.expiresAt)

isExpired(session) == now > parseDate(session.expiresAt)

\* a variant that grants every session the permissions of the highest tier
authenticateWithUDLTopTier(stored, sessionId) ==
  [ accessToken |-> generateApiToken("access", sessionId, 0),
    refreshToken |-> generateApiToken("refresh", sessionId, 0),
    permissions |-> getPermissionsForClassification("secret") ]

authenticateWithUDL(stored, sessionId) ==
  [ accessToken |-> generateApiToken("access", sessionId, 0),
    refreshToken |-> generateApiToken("refresh", sessionId, 0),
    permissions |-> getPermissionsForClassification(stored.classification) ]

\* a variant whose lifetime drops one factor of 60 (eight minutes)
newSessionShortLived(username, stored) ==
  LET sessionId == generateSessionId(nextSessionId + 1)
      authResult == authenticateWithUDL(stored, sessionId)
  IN [ sessionId |-> sessionId,
       username |-> username,
       classification |-> stored.classification,
       accessToken |-> authResult.accessToken,
       refreshToken |-> authResult.refreshToken,
       expiresAt |-> toISOString(now + 8 * 60 * 1000),
       permissions |-> authResult.permissions ]

newSession(username, stored) ==
  LET sessionId == generateSessionId(nextSessionId + 1)
      authResult == authenticateWithUDL(stored, sessionId)
  IN [ sessionId |-> sessionId,
       username |-> username,
       classification |-> stored.classification,
       accessToken |-> authResult.accessToken,
       refreshToken |-> authResult.refreshToken,
       expiresAt |-> toISOString(now + SessionLifetimeMs),
       permissions |-> authResult.permissions ]

\* a variant in which a failed login drops the current session
authenticateFailsLogsOut(username, password, err, calls) ==
  /\ lastOp' = Call("authenticateUser", <<username, password>>, err, None, calls)
  /\ currentSession' = None
  /\ UNCHANGED <<now, credentialsFile, sessions, nextSessionId,
                 udlRevocations, lastStore, inFlight>>

authenticateFails(username, password, err, calls) ==
  /\ lastOp' = Call("authenticateUser", <<username, password>>, err, None, calls)
  /\ UNCHANGED <<now, credentialsFile, sessions, currentSession, nextSessionId,
                 udlRevocations, lastStore, inFlight>>

\* a variant that reports a missing credential file as a wrong username
checkCredentialsMissingAsUsername(stored, username, password) ==
  IF stored = None \/ stored[1].username # username
    THEN [err |-> ErrInvalidUsername, calls |-> <<"loadCredentials">>]
  ELSE IF ~verifyPassword(password, stored[1].passwordHash, stored[1].salt)
    THEN [err |-> ErrInvalidPassword, calls |-> <<"loadCredentials", "verifyPassword">>]
  ELSE [err |-> NoError, calls |-> <<"loadCredentials", "verifyPassword">>]

\* a variant that verifies the password before it compares the username
checkCredentialsPasswordFirst(stored, username, password) ==
  IF stored = None
    THEN [err |-> ErrNoCredentials, calls |-> <<"loadCredentials">>]
  ELSE IF ~verifyPassword(password, stored[1].passwordHash, stored[1].salt)
    THEN [err |-> ErrInvalidPassword, calls |-> <<"loadCredentials", "verifyPassword">>]
  ELSE IF stored[1].username # username
    THEN [err |-> ErrInvalidUsername, calls |-> <<"loadCredentials", "verifyPassword">>]
  ELSE [err |-> NoError, calls |-> <<"loadCredentials", "verifyPassword">>]

\* a variant that throws the username error for a wrong password too
checkCredentialsOneMessage(stored, username, password) ==
  IF stored = None
    THEN [err |-> ErrNoCredentials, calls |-> <<"loadCredentials">>]
  ELSE IF stored[1].username # username
    THEN [err |-> ErrInvalidUsername, calls |-> <<"loadCredentials">>]
  ELSE IF ~verifyPassword(password, stored[1].passwordHash, stored[1].salt)
    THEN [err |-> ErrInvalidUsername, calls |-> <<"loadCredentials", "verifyPassword">>]
  ELSE [err |-> NoError, calls |-> <<"loadCredentials", "verifyPassword">>]

\* the checks authenticateUser makes before it calls the identity provider:
\* the error thrown (NoError when all pass) and the private methods invoked
checkCredentials(stored, username, password) ==
  IF stored = None
    THEN [err |-> ErrNoCredentials, calls |-> <<"loadCredentials">>]
  ELSE IF stored[1].username # username
    THEN [err |-> ErrInvalidUsername, calls |-> <<"loadCredentials">>]
  ELSE IF ~verifyPassword(password, stored[1].passwordHash, stored[1].salt)
    THEN [err |-> ErrInvalidPassword, calls |-> <<"loadCredentials", "verifyPassword">>]
  ELSE [err |-> NoError, calls |-> <<"loadCredentials", "verifyPassword">>]

\* a variant that logs the current session out before it installs the new one
authenticateUserSingleSession(username, password) ==
  LET stored == loadCredentials
      checked == checkCredentials(stored, username, password)
  IN
  IF checked.err # NoError
    THEN authenticateFails(username, password, checked.err, checked.calls)
  ELSE
    LET session == newSession(username, stored[1])
        replaced == IF currentSession = None THEN {}
                    ELSE {currentSession[1].sessionId} \cap DOMAIN sessions
        kept == [k \in (DOMAIN sessions) \ replaced |-> sessions[k]]
    IN
    /\ nextSessionId < MaxSessions
    /\ sessions' = mapSet(kept, session.sessionId, session)
    /\ currentSession' = Some(session)
    /\ udlRevocations' = IF replaced = {} THEN udlRevocations
                         ELSE Append(udlRevocations, currentSession[1].sessionId)
    /\ nextSessionId' = nextSessionId + 1
    /\ credentialsFile' = Some([stored[1] EXCEPT !.lastUsed = Some(toISOString(now))])
    /\ lastOp' = Call("authenticateUser", <<username, password>>, NoError, Some(session),
                      Append(checked.calls, "authenticateWithUDL"))
    /\ UNCHANGED <<now, lastStore, inFlight>>

authenticateUser(username, password) ==
  LET stored == loadCredentials
      checked == checkCredentials(stored, username, password)
  IN
  IF checked.err # NoError
    THEN authenticateFails(username, password, checked.err, checked.calls)
  ELSE
    LET session == newSession(username, stored[1]) IN
    /\ nextSessionId < MaxSessions
    /\ sessions' = mapSet(sessions, session.sessionId, session)
    /\ currentSession' = Some(session)
    /\ nextSessionId' = nextSessionId + 1
    /\ credentialsFile' = Some([stored[1] EXCEPT !.lastUsed = Some(toISOString(now))])
    /\ lastOp' = Call("authenticateUser", <<username, password>>, NoError, Some(session),
                      Append(checked.calls, "authenticateWithUDL"))
    /\ UNCHANGED <<now, udlRevocations, lastStore, inFlight>>

\* a variant that replaces the refresh token as well
refreshedSessionRotatesBoth(session) ==
  [session EXCEPT
     !.accessToken = generateApiToken("access", session.sessionId,
                                      refreshCount(session) + 1),
     !.refreshToken = generateApiToken("refresh", session.sessionId,
                                       refreshCount(session) + 1),
     !.expiresAt = toISOString(now + SessionLifetimeMs)]

\* a variant that derives the permissions again from the stored classification
refreshedSessionRederives(session) ==
  [session EXCEPT
     !.accessToken = generateApiToken("access", session.sessionId,
                                      refreshCount(session) + 1),
     !.expiresAt = toISOString(now + SessionLifetimeMs),
     !.classification = IF loadCredentials = None THEN session.classification
                        ELSE loadCredentials[1].classification,
     !.permissions = IF loadCredentials = None THEN session.permissions
                     ELSE getPermissionsForClassification(loadCredentials[1].classification)]

\* refreshSession: { ...session, accessToken: newAccessToken, expiresAt: ... }
refreshedSession(session) ==
  [session EXCEPT
     !.accessToken = generateApiToken("access", session.sessionId,
                                      refreshCount(session) + 1),
     !.expiresAt = toISOString(now + SessionLifetimeMs)]

\* a variant that throws on an expired session without deleting its entry
refreshSessionKeepsExpired(sessionId) ==
  IF sessionId \notin DOMAIN sessions THEN
    /\ lastOp' = Call("refreshSession", <<sessionId>>, ErrSessionNotFound, None, <<>>)
    /\ UNCHANGED <<now, credentialsFile, sessions, currentSession, nextSessionId,
                   udlRevocations, lastStore, inFlight>>
  ELSE IF isExpired(sessions[sessionId]) THEN
    /\ lastOp' = Call("refreshSession", <<sessionId>>, ErrSessionExpired, None, <<>>)
    /\ UNCHANGED <<now, credentialsFile, sessions, currentSession, nextSessionId,
                   udlRevocations, lastStore, inFlight>>
  ELSE
    LET refreshed == refreshedSession(sessions[sessionId])
    IN /\ refreshCount(sessions[sessionId]) < MaxRefreshes
       /\ sessions' = mapSet(sessions, sessionId, refreshed)
       /\ currentSession' =
            IF currentSession # None /\ currentSession[1].sessionId = sessionId
              THEN Some(refreshed) ELSE currentSession
       /\ lastOp' = Call("refreshSession", <<sessionId>>, NoError,
                         Some(refreshed), <<"generateApiToken">>)
       /\ UNCHANGED <<now, credentialsFile, nextSessionId, udlRevocations, lastStore, inFlight>>

\* a variant that makes one case of the missing and the expired session
refreshSessionMissingAsExpired(sessionId) ==
  IF sessionId \notin DOMAIN sessions \/ isExpired(sessions[sessionId]) THEN
    /\ sessions' = mapDelete(sessions, sessionId)
    /\ lastOp' = Call("refreshSession", <<sessionId>>, ErrSessionExpired, None, <<>>)
    /\ UNCHANGED <<now, credentialsFile, currentSession, nextSessionId,
                   udlRevocations, lastStore, inFlight>>
  ELSE
    LET refreshed == refreshedSession(sessions[sessionId])
    IN /\ refreshCount(sessions[sessionId]) < MaxRefreshes
       /\ sessions' = mapSet(sessions, sessionId, refreshed)
       /\ currentSession' =
            IF currentSession # None /\ currentSession[1].sessionId = sessionId
              THEN Some(refreshed) ELSE currentSession
       /\ lastOp' = Call("refreshSession", <<sessionId>>, NoError,
                         Some(refreshed), <<"generateApiToken">>)
       /\ UNCHANGED <<now, credentialsFile, nextSessionId, udlRevocations, lastStore, inFlight>>

refreshSession(sessionId) ==
  IF sessionId \notin DOMAIN sessions THEN
    /\ lastOp' = Call("refreshSession", <<sessionId>>, ErrSessionNotFound, None, <<>>)
    /\ UNCHANGED <<now, credentialsFile, sessions, currentSession, nextSessionId,
                   udlRevocations, lastStore, inFlight>>
  ELSE IF isExpired(sessions[sessionId]) THEN
    /\ sessions' = mapDelete(sessions, sessionId)
    /\ lastOp' = Call("refreshSession", <<sessionId>>, ErrSessionExpired, None, <<>>)
    /\ UNCHANGED <<now, credentialsFile, currentSession, nextSessionId,
                   udlRevocations, lastStore, inFlight>>
  ELSE
    LET refreshed == refreshedSession(sessions[sessionId])
    IN /\ refreshCount(sessions[sessionId]) < MaxRefreshes
       /\ sessions' = mapSet(sessions, sessionId, refreshed)
       /\ currentSession' =
            IF currentSession # None /\ currentSession[1].sessionId = sessionId
              THEN Some(refreshed) ELSE currentSession
       /\ lastOp' = Call("refreshSession", <<sessionId>>, NoError,
                         Some(refreshed), <<"generateApiToken">>)
       /\ UNCHANGED <<now, credentialsFile, nextSessionId, udlRevocations, lastStore, inFlight>>

\* ToBoolean of an optional string: undefined and the empty string are falsy
truthy(str) == str # None /\ str[1] # <<>>

\* a variant that clears the current session whatever session is logged out
logoutEffectAlwaysClears(st, sessionId) ==
  LET targetSessionId ==
        IF truthy(sessionId) THEN sessionId
        ELSE IF st.currentSession # None THEN Some(st.currentSession[1].sessionId)
        ELSE None
      found == truthy(targetSessionId) /\ targetSessionId[1] \in DOMAIN st.sessions
  IN [ sessions |-> IF found THEN mapDelete(st.sessions, targetSessionId[1])
                    ELSE st.sessions,
       udlRevocations |-> IF found THEN Append(st.udlRevocations, targetSessionId[1])
                          ELSE st.udlRevocations,
       currentSession |-> None ]

\* The effect of logout(sessionId?) on the session state st = [sessions,
\* currentSession, udlRevocations]; sessionId is None when the argument is omitted.
logoutEffect(st, sessionId) ==
  LET targetSessionId ==
        IF truthy(sessionId) THEN sessionId
        ELSE IF st.currentSession # None THEN Some(st.currentSession[1].sessionId)
        ELSE None
      found == truthy(targetSessionId) /\ targetSessionId[1] \in DOMAIN st.sessions
      clears == \/ ~truthy(sessionId)
                \/ /\ st.currentSession # None
                   /\ st.currentSession[1].sessionId = sessionId[1]
  IN [ sessions |-> IF found THEN mapDelete(st.sessions, targetSessionId[1])
                    ELSE st.sessions,
       udlRevocations |-> IF found THEN Append(st.udlRevocations, targetSessionId[1])
                          ELSE st.udlRevocations,
       currentSession |-> IF clears THEN None ELSE st.currentSession ]

sessionState ==
  [sessions |-> sessions, currentSession |-> currentSession,
   udlRevocations |-> udlRevocations]

logout(sessionId) ==
  LET after == logoutEffect(sessionState, sessionId)
  IN /\ sessions' = after.sessions
     /\ currentSession' = after.currentSession
     /\ udlRevocations' = after.udlRevocations
     /\ lastOp' = Call("logout", <<sessionId>>, NoError, None,
                       IF Len(after.udlRevocations) > Len(udlRevocations)
                         THEN <<"revokeTokensWithUDL">> ELSE <<>>)
     /\ UNCHANGED <<now, credentialsFile, nextSessionId, lastStore, inFlight>>

\* a variant that answers null for an expired session without logging it out
getCurrentSessionNoLogout ==
  IF currentSession = None THEN
    [ret |-> None, after |-> sessionState]
  ELSE IF isExpired(currentSession[1]) THEN
    [ret |-> None, after |-> sessionState]
  ELSE
    [ret |-> currentSession, after |-> sessionState]

\* getCurrentSession: the session returned (None for null) and the session state
\* it leaves behind
getCurrentSession ==
  IF currentSession = None THEN
    [ret |-> None, after |-> sessionState]
  ELSE IF isExpired(currentSession[1]) THEN
    [ret |-> None,
     after |-> logoutEffect(sessionState, Some(currentSession[1].sessionId))]
  ELSE
    [ret |-> currentSession, after |-> sessionState]

\* a read path: the effect of its getCurrentSession call, and its answer
\* out = [err, ret], computed from the session that call returned
readPath(op, args, out) ==
  LET got == getCurrentSession
  IN /\ sessions' = got.after.sessions
     /\ currentSession' = got.after.currentSession
     /\ udlRevocations' = got.after.udlRevocations
     /\ lastOp' = Call(op, args, out.err, out.ret,
                       IF Len(got.after.udlRevocations) > Len(udlRevocations)
                         THEN <<"getCurrentSession", "logout", "revokeTokensWithUDL">>
                       ELSE IF got.after.currentSession # currentSession
                         THEN <<"getCurrentSession", "logout">>
                       ELSE <<"getCurrentSession">>)

statusOf(session) ==
  IF session = None
    THEN [err |-> NoError, ret |-> [isAuthenticated |-> FALSE]]
    ELSE [err |-> NoError,
          ret |-> [ isAuthenticated |-> TRUE,
                    username |-> session[1].username,
                    classification |-> session[1].classification,
                    sessionId |-> session[1].sessionId,
                    expiresAt |-> session[1].expiresAt,
                    permissions |-> session[1].permissions,
                    lastActivity |-> toISOString(now) ]]

getAuthenticationStatus ==
  /\ readPath("getAuthenticationStatus", <<>>, statusOf(getCurrentSession.ret))
  /\ UNCHANGED <<now, credentialsFile, nextSessionId, lastStore, inFlight>>

permissionOf(permission, session) ==
  IF session = None
    THEN [err |-> NoError, ret |-> FALSE]
    ELSE [err |-> NoError, ret |-> permissionGranted(session[1].permissions, permission)]

validatePermission(permission) ==
  /\ readPath("validatePermission", <<permission>>,
              permissionOf(permission, getCurrentSession.ret))
  /\ UNCHANGED <<now, credentialsFile, nextSessionId, lastStore, inFlight>>

\* String.prototype.toUpperCase on the classification
toUpperCase(str) ==
  CASE str = "unclassified" -> "UNCLASSIFIED"
    [] str = "cui" -> "CUI"
    [] str = "secret" -> "SECRET"
    [] str = "confidential" -> "CONFIDENTIAL"

\* a variant that sends the refresh token as the bearer token
headersOfRefreshBearer(session) ==
  IF session = None
    THEN [err |-> ErrNotAuthenticated, ret |-> None]
    ELSE [err |-> NoError,
          ret |-> Some([ Authorization |-> <<"Bearer ", session[1].refreshToken>>,
                         XClassification |-> toUpperCase(session[1].classification),
                         XSessionID |-> session[1].sessionId,
                         ContentType |-> "application/json",
                         UserAgent |-> "UDL-MCP-Server/1.0.0" ])]

headersOf(session) ==
  IF session = None
    THEN [err |-> ErrNotAuthenticated, ret |-> None]
    ELSE [err |-> NoError,
          ret |-> Some([ Authorization |-> <<"Bearer ", session[1].accessToken>>,
                         XClassification |-> toUpperCase(session[1].classification),
                         XSessionID |-> session[1].sessionId,
                         ContentType |-> "application/json",
                         UserAgent |-> "UDL-MCP-Server/1.0.0" ])]

getApiHeaders ==
  /\ readPath("getApiHeaders", <<>>, headersOf(getCurrentSession.ret))
  /\ UNCHANGED <<now, credentialsFile, nextSessionId, lastStore, inFlight>>

----------------------------------------------------------------------------
(* The specification: any sequence of calls, with time passing in between *)

Next ==
  \/ Tick
  \/ \E c \in StoreCalls, e \in ApiEndpoints :
        storeCredentials(c.username, c.password, c.classification, e, c.randomSalt)
  \/ clearStoredCredentials
  \/ \E u \in Usernames, p \in Passwords : authenticateUser(u, p)
  \/ \E id \in SessionIds : refreshSession(id)
  \/ \E id \in LogoutArguments : logout(id)
  \/ getAuthenticationStatus
  \/ \E q \in QueriedPermissions : validatePermission(q)
  \/ getApiHeaders

Spec == Init /\ [][Next]_vars

----------------------------------------------------------------------------
(* validatePermission on sessions of any permission list.  The catalog issues
   no wildcard, so the wildcard clauses of validatePermission are exercised
   from a session table that holds one current session, issued at time 0,
   whose permission list is drawn from the lists of at most two entries over
   exact, prefix-wildcard and global-wildcard strings. *)

PermissionEntries ==
  { perm("objects", "get"), perm("objects", "*"), perm("tle", "read"), Wildcard }

PermissionLists ==
  {<<>>} \cup {<<a>> : a \in PermissionEntries}
         \cup {<<a, b>> : a \in PermissionEntries, b \in PermissionEntries}

\* queries with no ':', with one and with two
PermissionQueries ==
  QueriedPermissions \cup
    { Wildcard, <<"tle">>, perm("tle", "read"), perm("objects", "*"),
      <<"objects", Colon, "get", Colon, "all">> }

sessionHolding(permissions) ==
  [ sessionId |-> generateSessionId(1),
    username |-> "alice",
    classification |-> "unclassified",
    accessToken |-> generateApiToken("access", generateSessionId(1), 0),
    refreshToken |-> generateApiToken("refresh", generateSessionId(1), 0),
    expiresAt |-> toISOString(SessionLifetimeMs),
    permissions |-> permissions ]

PermissionInit ==
  /\ now = 0
  /\ credentialsFile = None
  /\ \E permissions \in PermissionLists :
       /\ sessions = mapSet(<<>>, generateSessionId(1), sessionHolding(permissions))
       /\ currentSession = Some(sessionHolding(permissions))
  /\ nextSessionId = 1
  /\ udlRevocations = <<>>
  /\ lastStore = None
  /\ lastOp = Call("new", <<>>, NoError, None, <<>>)
  /\ inFlight = [c \in Callers |-> None]

PermissionNext ==
  \/ Tick
  \/ \E q \in PermissionQueries : validatePermission(q)
  \/ logout(None)

PermissionSpec == PermissionInit /\ [][PermissionNext]_vars

----------------------------------------------------------------------------
(* Expiry without an explicit logout: sessions are issued, refreshed and left
   to expire, and getAuthenticationStatus is the only reader, so that every
   revocation sent to the identity provider comes from a getAuthenticationStatus
   call that found the current session expired. *)

ExpiryNext ==
  \/ Tick
  \/ \E c \in StoreCalls, e \in ApiEndpoints :
        storeCredentials(c.username, c.password, c.classification, e, c.randomSalt)
  \/ clearStoredCredentials
  \/ \E u \in Usernames, p \in Passwords : authenticateUser(u, p)
  \/ \E id \in SessionIds : refreshSession(id)
  \/ getAuthenticationStatus

ExpirySpec == Init /\ [][ExpiryNext]_vars

----------------------------------------------------------------------------
(* A credential file that can refuse a write.  authenticateUser installs the
   session and then awaits fs.writeFile for lastUsed without a try block: when
   the write is refused at open (the file is left as it was) the rejection
   leaves authenticateUser as it is. *)

ErrWriteFile == "EACCES: permission denied, open 'credentials.json'"

authenticateUserWriteFails(username, password) ==
  LET stored == loadCredentials
      checked == checkCredentials(stored, username, password)
  IN
  /\ checked.err = NoError
  /\ nextSessionId < MaxSessions
  /\ LET session == newSession(username, stored[1]) IN
     /\ sessions' = mapSet(sessions, session.sessionId, session)
     /\ currentSession' = Some(session)
     /\ nextSessionId' = nextSessionId + 1
     /\ lastOp' = Call("authenticateUser", <<username, password>>, ErrWriteFile, None,
                       checked.calls \o <<"authenticateWithUDL", "writeFile">>)
     /\ UNCHANGED <<now, credentialsFile, udlRevocations, lastStore, inFlight>>

\* authenticateWithUDL: the catch block rethrows what the login threw
ErrUDLFailed == "UDL API authentication failed: login refused"

\* a variant that falls back to a session when the login throws
authenticateUserLoginFailsFallsBack(username, password) ==
  LET stored == loadCredentials
      checked == checkCredentials(stored, username, password)
  IN
  /\ checked.err = NoError
  /\ nextSessionId < MaxSessions
  /\ LET session == newSession(username, stored[1]) IN
     /\ sessions' = mapSet(sessions, session.sessionId, session)
     /\ currentSession' = Some(session)
     /\ nextSessionId' = nextSessionId + 1
     /\ lastOp' = Call("authenticateUser", <<username, password>>, ErrUDLFailed, None,
                       Append(checked.calls, "authenticateWithUDL"))
     /\ UNCHANGED <<now, credentialsFile, udlRevocations, lastStore, inFlight>>

\* authenticateUser when authenticateWithUDL throws: the await at the call
\* rejects before the session is built
authenticateUserLoginFails(username, password) ==
  LET stored == loadCredentials
      checked == checkCredentials(stored, username, password)
  IN
  /\ checked.err = NoError
  /\ lastOp' = Call("authenticateUser", <<username, password>>, ErrUDLFailed, None,
                    Append(checked.calls, "authenticateWithUDL"))
  /\ UNCHANGED <<now, credentialsFile, sessions, currentSession, nextSessionId,
                 udlRevocations, lastStore, inFlight>>

FaultNext ==
  \/ Next
  \/ \E u \in Usernames, p \in Passwords : authenticateUserWriteFails(u, p)
  \/ \E u \in Usernames, p \in Passwords : authenticateUserLoginFails(u, p)

FaultSpec == Init /\ [][FaultNext]_vars

----------------------------------------------------------------------------
(* Calls that overlap.  A method runs without interruption up to an await,
   where it is suspended and the calls of other callers run until it resumes.
   logout is suspended in its call of the identity provider, a read path in
   the logout of an expired session or on the promise of getCurrentSession,
   authenticateUser between reading the credential file and issuing the
   session and again in the rewrite of the file.  refreshSession has no await;
   storeCredentials and clearStoredCredentials touch shared state in their
   last file operation only.  AwaitSpec overlaps the calls on the sessions,
   StoreAwaitSpec the calls on the credential file. *)

\* the calls made while calls overlap: one user, whose record is stored with
\* either password, and one queried permission
AwaitStoreCalls == {call \in StoreCalls : call.username = "alice"}

AwaitUsernames == {"alice"}

AwaitQueries == {perm("objects", "get")}

\* a call that starts is given the first caller that has no call in flight
firstFree(c) == inFlight[c] = None /\ \A d \in 1..(c - 1) : inFlight[d] # None

suspend(c, frame) == [inFlight EXCEPT ![c] = Some(frame)]

resume(c) == [inFlight EXCEPT ![c] = None]

suspendedIn(c, op) == inFlight[c] # None /\ inFlight[c][1].op = op

\* logout up to the await of revokeTokensWithUDL; without a session to revoke
\* it has no await and runs to its end
logoutBegin(c, sessionId) ==
  LET targetSessionId ==
        IF truthy(sessionId) THEN sessionId
        ELSE IF currentSession # None THEN Some(currentSession[1].sessionId)
        ELSE None
      found == truthy(targetSessionId) /\ targetSessionId[1] \in DOMAIN sessions
  IN /\ firstFree(c)
     /\ IF found THEN
          /\ udlRevocations' = Append(udlRevocations, targetSessionId[1])
          /\ inFlight' = suspend(c, [op |-> "logout", sessionId |-> sessionId,
                                     targetSessionId |-> targetSessionId[1]])
          /\ lastOp' = Call("logout", <<sessionId>>, Pending, None,
                            <<"revokeTokensWithUDL">>)
          /\ UNCHANGED <<now, credentialsFile, sessions, currentSession,
                         nextSessionId, lastStore>>
        ELSE logout(sessionId)

\* logout after the await: sessions.delete and the test on the current session
logoutEnd(c) ==
  /\ suspendedIn(c, "logout")
  /\ LET frame == inFlight[c][1]
         clears == \/ ~truthy(frame.sessionId)
                   \/ /\ currentSession # None
                      /\ currentSession[1].sessionId = frame.sessionId[1]
     IN /\ sessions' = mapDelete(sessions, frame.targetSessionId)
        /\ currentSession' = IF clears THEN None ELSE currentSession
        /\ lastOp' = Call("logout", <<frame.sessionId>>, NoError, None,
                          <<"revokeTokensWithUDL">>)
  /\ inFlight' = resume(c)
  /\ UNCHANGED <<now, credentialsFile, nextSessionId, udlRevocations, lastStore>>

\* a read path up to its first await: getCurrentSession returns the current
\* session, or starts the logout of the expired one
readPathBegin(c, op, args) ==
  LET expired == currentSession # None /\ isExpired(currentSession[1])
      revokes == expired /\ currentSession[1].sessionId \in DOMAIN sessions
  IN /\ firstFree(c)
     /\ udlRevocations' = IF revokes
                            THEN Append(udlRevocations, currentSession[1].sessionId)
                            ELSE udlRevocations
     /\ currentSession' = IF expired /\ ~revokes THEN None ELSE currentSession
     /\ inFlight' = suspend(c, [op |-> op, args |-> args,
                                session |-> IF expired THEN None ELSE currentSession,
                                revoking |-> IF revokes
                                               THEN Some(currentSession[1].sessionId)
                                               ELSE None])
     /\ lastOp' = Call(op, args, Pending, None,
                       IF revokes
                         THEN <<"getCurrentSession", "logout", "revokeTokensWithUDL">>
                       ELSE IF expired THEN <<"getCurrentSession", "logout">>
                       ELSE <<"getCurrentSession">>)
     /\ UNCHANGED <<now, credentialsFile, sessions, nextSessionId, lastStore>>

\* the answer of a read path, from the session getCurrentSession returned
answerOf(op, args, session) ==
  CASE op = "getAuthenticationStatus" -> statusOf(session)
    [] op = "validatePermission" -> permissionOf(args[1], session)
    [] op = "getApiHeaders" -> headersOf(session)

\* a read path after the await: the rest of the logout it started, if any, and
\* its answer
readPathEnd(c, op) ==
  /\ suspendedIn(c, op)
  /\ LET frame == inFlight[c][1]
         out == answerOf(op, frame.args, frame.session)
     IN /\ sessions' = IF frame.revoking = None THEN sessions
                       ELSE mapDelete(sessions, frame.revoking[1])
        /\ currentSession' =
             IF /\ frame.revoking # None
                /\ currentSession # None
                /\ currentSession[1].sessionId = frame.revoking[1]
               THEN None ELSE currentSession
        /\ lastOp' = Call(op, frame.args, out.err, out.ret, <<"getCurrentSession">>)
  /\ inFlight' = resume(c)
  /\ UNCHANGED <<now, credentialsFile, nextSessionId, udlRevocations, lastStore>>

\* the calls of authenticateUser suspended before they draw their session id
loginsPending ==
  Cardinality({c \in Callers : /\ suspendedIn(c, "authenticateUser")
                               /\ inFlight[c][1].pc = "login"})

\* authenticateUser up to the login at the identity provider: the credential
\* file is read and the username and the password are checked
authenticateUserLoad(c, username, password) ==
  LET stored == loadCredentials
      checked == checkCredentials(stored, username, password)
  IN /\ firstFree(c)
     /\ IF checked.err # NoError
          THEN authenticateFails(username, password, checked.err, checked.calls)
        ELSE
          /\ nextSessionId + loginsPending < MaxSessions
          /\ inFlight' = suspend(c, [op |-> "authenticateUser", pc |-> "login",
                                     username |-> username, password |-> password,
                                     stored |-> stored[1], session |-> None,
                                     calls |-> checked.calls])
          /\ lastOp' = Call("authenticateUser", <<username, password>>, Pending,
                            None, checked.calls)
          /\ UNCHANGED <<now, credentialsFile, sessions, currentSession,
                         nextSessionId, udlRevocations, lastStore>>

\* authenticateUser from the answer of the identity provider to the await of
\* fs.writeFile: the session is installed and made current
authenticateUserIssue(c) ==
  /\ suspendedIn(c, "authenticateUser")
  /\ inFlight[c][1].pc = "login"
  /\ LET frame == inFlight[c][1]
         session == newSession(frame.username, frame.stored)
     IN /\ sessions' = mapSet(sessions, session.sessionId, session)
        /\ currentSession' = Some(session)
        /\ nextSessionId' = nextSessionId + 1
        /\ inFlight' = suspend(c, [frame EXCEPT
                                     !.pc = "write",
                                     !.stored = [frame.stored EXCEPT
                                                   !.lastUsed = Some(toISOString(now))],
                                     !.session = Some(session),
                                     !.calls = Append(frame.calls, "authenticateWithUDL")])
        /\ lastOp' = Call("authenticateUser", <<frame.username, frame.password>>,
                          Pending, None, Append(frame.calls, "authenticateWithUDL"))
  /\ UNCHANGED <<now, credentialsFile, udlRevocations, lastStore>>

\* authenticateUser from the write of the credential file to its return: the
\* record it loaded, with lastUsed set, replaces the file
authenticateUserWrite(c) ==
  /\ suspendedIn(c, "authenticateUser")
  /\ inFlight[c][1].pc = "write"
  /\ LET frame == inFlight[c][1]
     IN /\ credentialsFile' = Some(frame.stored)
        /\ lastOp' = Call("authenticateUser", <<frame.username, frame.password>>,
                          NoError, frame.session, frame.calls)
  /\ inFlight' = resume(c)
  /\ UNCHANGED <<now, sessions, currentSession, nextSessionId, udlRevocations,
                 lastStore>>

\* Overlapping calls on the sessions: the credentials of one user were stored
\* before the first call, and are not stored again
AwaitInit ==
  /\ now = 0
  /\ \E call \in AwaitStoreCalls :
       LET hashed == hashPassword(call.password, call.randomSalt)
       IN /\ credentialsFile = Some([ username |-> call.username,
                                      passwordHash |-> hashed.hash,
                                      salt |-> hashed.salt,
                                      classification |-> call.classification,
                                      apiEndpoint |-> DefaultApiEndpoint,
                                      createdAt |-> toISOString(0),
                                      lastUsed |-> None ])
          /\ lastStore = Some([username |-> call.username, password |-> call.password])
          /\ lastOp = [ op |-> "storeCredentials",
                        args |-> <<call.username, call.password, call.classification>>,
                        err |-> NoError, ret |-> None, at |-> 0,
                        calls |-> <<"hashPassword">> ]
  /\ sessions = <<>>
  /\ currentSession = None
  /\ nextSessionId = 0
  /\ udlRevocations = <<>>
  /\ inFlight = [c \in Callers |-> None]

AwaitNext ==
  \/ Tick
  \/ \E id \in SessionIds : refreshSession(id)
  \/ \E c \in Callers, u \in AwaitUsernames, p \in Passwords :
        authenticateUserLoad(c, u, p)
  \/ \E c \in Callers : authenticateUserIssue(c)
  \/ \E c \in Callers : authenticateUserWrite(c)
  \/ \E c \in Callers, id \in LogoutArguments : logoutBegin(c, id)
  \/ \E c \in Callers : logoutEnd(c)
  \/ \E c \in Callers : readPathBegin(c, "getAuthenticationStatus", <<>>)
  \/ \E c \in Callers, q \in AwaitQueries :
        readPathBegin(c, "validatePermission", <<q>>)
  \/ \E c \in Callers : readPathBegin(c, "getApiHeaders", <<>>)
  \/ \E c \in Callers : readPathEnd(c, "getAuthenticationStatus")
  \/ \E c \in Callers : readPathEnd(c, "validatePermission")
  \/ \E c \in Callers : readPathEnd(c, "getApiHeaders")

AwaitSpec == AwaitInit /\ [][AwaitNext]_vars

\* Overlapping calls on the credential file: authenticateUser in its three
\* parts, with storeCredentials and clearStoredCredentials in between
StoreAwaitNext ==
  \/ Tick
  \/ \E call \in AwaitStoreCalls, e \in ApiEndpoints :
        storeCredentials(call.username, call.password, call.classification, e,
                         call.randomSalt)
  \/ clearStoredCredentials
  \/ \E c \in Callers, u \in AwaitUsernames, p \in Passwords :
        authenticateUserLoad(c, u, p)
  \/ \E c \in Callers : authenticateUserIssue(c)
  \/ \E c \in Callers : authenticateUserWrite(c)

StoreAwaitSpec == Init /\ [][StoreAwaitNext]_vars

----------------------------------------------------------------------------
(* Properties *)

Tiers == {"unclassified", "cui", "secret"}

EightHoursMs == 28800000

Authenticated == lastOp.op = "authenticateUser" /\ lastOp.err = NoError

\* C1: after a successful authenticateUser(u, p) at time t the returned session
\* is the table entry under its sessionId and the current session, with
\* username u, the stored record's classification and expiresAt = t + 8 hours.
C1_IssuedSession ==
  Authenticated =>
    LET session == lastOp.ret[1] IN
    /\ session.sessionId \in DOMAIN sessions
    /\ sessions[session.sessionId] = session
    /\ currentSession = <<session>>
    /\ session.username = lastOp.args[1]
    /\ credentialsFile # <<>>
    /\ session.classification = credentialsFile[1].classification
    /\ session.expiresAt.date * 86400000 + session.expiresAt.time
         = lastOp.at + EightHoursMs

C1_Witness ==
  /\ Authenticated
  /\ lastOp.at > 0
  /\ lastOp.ret[1].classification = "secret"
  /\ Cardinality(DOMAIN sessions) = 2

UnexpiredCurrent ==
  /\ currentSession # <<>>
  /\ now <= parseDate(currentSession[1].expiresAt)

AnsweredAuthenticated ==
  \/ lastOp.op = "getAuthenticationStatus" /\ lastOp.ret.isAuthenticated
  \/ lastOp.op = "validatePermission" /\ lastOp.ret
  \/ lastOp.op = "getApiHeaders" /\ lastOp.err = NoError

\* C2: getAuthenticationStatus answers isAuthenticated = true exactly when, at
\* the call, a current session exists and now <= its expiresAt; and no read path
\* answers as authenticated on a session whose expiresAt is earlier than now.
C2_NoStaleSession ==
  /\ [][lastOp'.op = "getAuthenticationStatus" =>
          lastOp'.ret.isAuthenticated = UnexpiredCurrent]_vars
  /\ [](AnsweredAuthenticated => UnexpiredCurrent)

C2_Witness ==
  /\ lastOp.op = "getAuthenticationStatus"
  /\ ~lastOp.ret.isAuthenticated
  /\ Len(lastOp.calls) > 1

\* C2 at the deadline: the status is still authenticated when now = expiresAt
C2_WitnessDeadline ==
  /\ lastOp.op = "getAuthenticationStatus"
  /\ lastOp.ret.isAuthenticated
  /\ now = parseDate(lastOp.ret.expiresAt)

\* the Permission Catalog as section 4.3 of the specification writes it
CatalogUnclassified ==
  { <<"catalog", ":", "read">>, <<"objects", ":", "search">>,
    <<"objects", ":", "get">>, <<"tle", ":", "read">>,
    <<"predictions", ":", "read">> }

CatalogCui ==
  CatalogUnclassified \cup
    { <<"conjunctions", ":", "read">>, <<"sensors", ":", "read">>,
      <<"analysis", ":", "read">> }

CatalogSecret ==
  CatalogCui \cup
    { <<"classifications", ":", "all">>, <<"spacefence", ":", "read">>,
      <<"intelligence", ":", "read">> }

CatalogOf(c) ==
  CASE c = "unclassified" -> CatalogUnclassified
    [] c = "cui" -> CatalogCui
    [] c = "secret" -> CatalogSecret

\* C3: for a current, unexpired session of tier c, validatePermission(p) is true
\* if and only if p is in the catalog set of c.
C3_PermissionByTier ==
  ( /\ lastOp.op = "validatePermission"
    /\ UnexpiredCurrent
    /\ currentSession[1].classification \in Tiers ) =>
      (lastOp.ret <=> lastOp.args[1] \in CatalogOf(currentSession[1].classification))

C3_Witness ==
  /\ lastOp.op = "validatePermission"
  /\ UnexpiredCurrent
  /\ currentSession[1].classification = "unclassified"
  /\ lastOp.args[1] = <<"spacefence", ":", "read">>
  /\ ~lastOp.ret

\* C4: the catalog maps each tier to exactly its set, every issued session
\* carries the set of its tier, and unclassified < cui < secret strictly.
C4_CatalogTiers ==
  /\ \A c \in Tiers : Range(getPermissionsForClassification(c)) = CatalogOf(c)
  /\ \A id \in DOMAIN sessions :
       sessions[id].classification \in Tiers =>
         Range(sessions[id].permissions) = CatalogOf(sessions[id].classification)
  /\ Range(getPermissionsForClassification("unclassified"))
       \subseteq Range(getPermissionsForClassification("cui"))
  /\ Range(getPermissionsForClassification("cui"))
       \subseteq Range(getPermissionsForClassification("secret"))
  /\ Range(getPermissionsForClassification("unclassified"))
       # Range(getPermissionsForClassification("cui"))
  /\ Range(getPermissionsForClassification("cui"))
       # Range(getPermissionsForClassification("secret"))

C4_Witness ==
  /\ Authenticated
  /\ lastOp.ret[1].classification = "cui"
  /\ Cardinality(Range(lastOp.ret[1].permissions)) = 8

UnknownTierIssued == Authenticated /\ lastOp.ret[1].classification \notin Tiers

\* C5 as claimed: for a classification outside the three tiers the catalog
\* returns the same set as for unclassified.
C5_UnknownIsUnclassified ==
  UnknownTierIssued => Range(lastOp.ret[1].permissions) = CatalogUnclassified

\* C5: for a classification outside the three tiers the catalog returns exactly
\* catalog:read, objects:search, objects:get and tle:read: the unclassified set
\* without predictions:read, and no capability of a higher tier.
C5_UnknownIsBase ==
  UnknownTierIssued =>
    /\ Range(lastOp.ret[1].permissions) =
         { <<"catalog", ":", "read">>, <<"objects", ":", "search">>,
           <<"objects", ":", "get">>, <<"tle", ":", "read">> }
    /\ Range(lastOp.ret[1].permissions) \subseteq CatalogUnclassified
    /\ Range(lastOp.ret[1].permissions) \cap (CatalogSecret \ CatalogUnclassified) = {}

C5_Witness == UnknownTierIssued /\ lastOp.ret[1].classification = "confidential"

AuthenticateCalled == lastOp.op = "authenticateUser"

\* C7: authenticateUser(u, p) succeeds if and only if a credential record exists
\* and (u, p) are the username and password of the latest storeCredentials.
C7_LatestCredentialsOnly ==
  AuthenticateCalled =>
    ( lastOp.err = NoError <=>
        /\ credentialsFile # <<>>
        /\ lastStore # <<>>
        /\ lastOp.args[1] = lastStore[1].username
        /\ lastOp.args[2] = lastStore[1].password )

\* alice's first password issued a session, was overwritten, and fails now
C7_Witness ==
  /\ AuthenticateCalled
  /\ lastOp.args = <<"alice", <<115, 112>>>>
  /\ lastOp.err = ErrInvalidPassword
  /\ lastStore # <<>>
  /\ lastStore[1] = [username |-> "alice", password |-> <<119, 112>>]
  /\ \E id \in DOMAIN sessions :
       /\ sessions[id].username = "alice"
       /\ sessions[id].classification = "unclassified"

\* C8: authenticateUser fails with the no-credentials error whenever the store
\* holds no record, whatever username and password are supplied.
C8_NoCredentials ==
  (AuthenticateCalled /\ credentialsFile = <<>>) =>
    lastOp.err = "No stored credentials found. Please configure UDL credentials first."

\* the store is empty after a clear: a session had been issued before
C8_Witness ==
  /\ AuthenticateCalled
  /\ credentialsFile = <<>>
  /\ lastOp.err = ErrNoCredentials
  /\ nextSessionId > 0

\* C9: with a record stored and a different username supplied, authenticateUser
\* fails with the username error for every password, and does not verify the
\* password.
C9_UsernameFirst ==
  ( /\ AuthenticateCalled
    /\ credentialsFile # <<>>
    /\ lastOp.args[1] # credentialsFile[1].username ) =>
      /\ lastOp.err = "Invalid username"
      /\ "verifyPassword" \notin Range(lastOp.calls)

\* the wrong username with the right password
C9_Witness ==
  /\ AuthenticateCalled
  /\ lastStore # <<>>
  /\ lastOp.args[1] # lastStore[1].username
  /\ lastOp.args[2] = lastStore[1].password
  /\ lastOp.err = ErrInvalidUsername

\* C10: with the stored username and a password that is not the stored one,
\* authenticateUser fails with the password error.
C10_WrongPassword ==
  ( /\ AuthenticateCalled
    /\ lastStore # <<>>
    /\ lastOp.args[1] = lastStore[1].username
    /\ lastOp.args[2] # lastStore[1].password ) =>
      lastOp.err = "Invalid password"

C10_Witness ==
  /\ AuthenticateCalled
  /\ lastStore # <<>>
  /\ lastOp.args[1] = lastStore[1].username
  /\ lastOp.args[2] # lastStore[1].password
  /\ lastOp.err = ErrInvalidPassword
  /\ currentSession # <<>>

\* the text before the first ':' of a permission string
NamespaceOf(p) == IF p = <<>> \/ p[1] = ":" THEN <<>> ELSE <<p[1]>>

HoldsPermission(held, p) ==
  \/ p \in held
  \/ <<"*">> \in held
  \/ (NamespaceOf(p) \o <<":", "*">>) \in held

\* C6: validatePermission(p) is false when there is no current unexpired
\* session; otherwise it is true if and only if the session's permissions
\* contain p, '*' or the namespace of p followed by ':*'.
C6_ValidatePermission ==
  [][lastOp'.op = "validatePermission" =>
       ( lastOp'.ret <=>
           /\ UnexpiredCurrent
           /\ HoldsPermission(Range(currentSession[1].permissions), lastOp'.args[1]) )]_vars

\* objects:get granted by the prefix wildcard objects:* alone
C6_Witness ==
  /\ lastOp.op = "validatePermission"
  /\ lastOp.args[1] = <<"objects", ":", "get">>
  /\ lastOp.ret
  /\ currentSession # <<>>
  /\ Range(currentSession[1].permissions) = {<<"objects", ":", "*">>, <<"tle", ":", "read">>}

\* C6 without a session: the query is refused after the session expired
C6_WitnessExpired ==
  /\ lastOp.op = "validatePermission"
  /\ ~lastOp.ret
  /\ "logout" \in Range(lastOp.calls)

RefreshCalled == lastOp'.op = "refreshSession"

RefreshSucceeds == RefreshCalled /\ lastOp'.err = NoError

\* C11: a successful refreshSession(id) at time t replaces the accessToken of
\* the entry for id and sets its expiresAt to t + 8 hours; sessionId,
\* refreshToken, username, classification and permissions keep their values,
\* the returned session is the new table entry, it is the current session when
\* id was the current session's id, and nothing else in the table or the
\* current session changes.
C11_RefreshFrame ==
  [][RefreshSucceeds =>
       LET id == lastOp'.args[1] IN
       /\ id \in DOMAIN sessions
       /\ DOMAIN sessions' = DOMAIN sessions
       /\ sessions'[id].sessionId = sessions[id].sessionId
       /\ sessions'[id].refreshToken = sessions[id].refreshToken
       /\ sessions'[id].username = sessions[id].username
       /\ sessions'[id].classification = sessions[id].classification
       /\ sessions'[id].permissions = sessions[id].permissions
       /\ sessions'[id].accessToken # sessions[id].accessToken
       /\ sessions'[id].expiresAt.date * 86400000 + sessions'[id].expiresAt.time
            = now + EightHoursMs
       /\ lastOp'.ret = <<sessions'[id]>>
       /\ \A other \in DOMAIN sessions \ {id} : sessions'[other] = sessions[other]
       /\ IF currentSession # <<>> /\ currentSession[1].sessionId = id
            THEN currentSession' = <<sessions'[id]>>
            ELSE currentSession' = currentSession]_vars

\* the current session refreshed at its deadline, with a second session in the table
C11_Witness ==
  /\ lastOp.op = "refreshSession"
  /\ lastOp.err = NoError
  /\ lastOp.at > 0
  /\ currentSession = lastOp.ret
  /\ Cardinality(DOMAIN sessions) = 2

\* C11 for a session that is not the current one
C11_WitnessOther ==
  /\ lastOp.op = "refreshSession"
  /\ lastOp.err = NoError
  /\ currentSession # <<>>
  /\ currentSession # lastOp.ret

\* the instant a session expires, in milliseconds
ExpiryOf(session) == session.expiresAt.date * 86400000 + session.expiresAt.time

\* C12: refreshSession(id) on a table entry with now > expiresAt fails with
\* the expired error and removes that entry and no other; a refreshSession
\* that succeeds was made at or before the expiresAt of the entry.
C12_ExpiredRefreshPurges ==
  [][RefreshCalled =>
       LET id == lastOp'.args[1] IN
       /\ (id \in DOMAIN sessions /\ now > ExpiryOf(sessions[id])) =>
             /\ lastOp'.err = "Session expired"
             /\ DOMAIN sessions' = DOMAIN sessions \ {id}
             /\ \A other \in DOMAIN sessions' : sessions'[other] = sessions[other]
       /\ lastOp'.err = NoError => now <= ExpiryOf(sessions[id])]_vars

\* an expired session purged while a later session stays in the table
C12_Witness ==
  /\ lastOp.op = "refreshSession"
  /\ lastOp.err = ErrSessionExpired
  /\ lastOp.args[1] \notin DOMAIN sessions
  /\ Cardinality(DOMAIN sessions) = 1
  /\ currentSession # <<>>
  /\ currentSession[1].sessionId \in DOMAIN sessions

\* C14: refreshSession(id) for an id without a table entry fails with the
\* not-found error and leaves the session table and the current session as
\* they were.
C14_UnknownRefresh ==
  [][(RefreshCalled /\ lastOp'.args[1] \notin DOMAIN sessions) =>
       /\ lastOp'.err = "Session not found"
       /\ sessions' = sessions
       /\ currentSession' = currentSession]_vars

\* the id was revoked by a logout, and another session is current
C14_Witness ==
  /\ lastOp.op = "refreshSession"
  /\ lastOp.err = ErrSessionNotFound
  /\ lastOp.args[1] \in Range(udlRevocations)
  /\ currentSession # <<>>

\* C14 for an id that was never issued
C14_WitnessNeverIssued ==
  /\ lastOp.op = "refreshSession"
  /\ lastOp.err = ErrSessionNotFound
  /\ nextSessionId = 0

\* C14 for an id purged by an earlier refreshSession: it is still the id of the
\* current session, and no revocation was sent for it
C14_WitnessPurged ==
  /\ lastOp.op = "refreshSession"
  /\ lastOp.err = ErrSessionNotFound
  /\ currentSession # <<>>
  /\ currentSession[1].sessionId = lastOp.args[1]
  /\ lastOp.args[1] \notin Range(udlRevocations)

\* getAuthenticationStatus is called with the clock past the current session's
\* expiresAt
StatusFindsExpired ==
  /\ lastOp'.op = "getAuthenticationStatus"
  /\ currentSession # <<>>
  /\ now > ExpiryOf(currentSession[1])

IssuedIds == {generateSessionId(n) : n \in 1..nextSessionId}

\* C13 as claimed: once getAuthenticationStatus has revoked the expired current
\* session, refreshSession on its id fails with the expired error.
C13_RefreshAfterStatusExpired ==
  [][(RefreshCalled /\ lastOp'.args[1] \in Range(udlRevocations)) =>
       lastOp'.err = "Session expired"]_vars

\* C13: getAuthenticationStatus called past the current session's expiresAt
\* answers unauthenticated and leaves no table entry under that session's id;
\* an issued id without an entry never gets one again; and refreshSession on
\* such an id fails with the not-found error.
C13_RefreshAfterStatusNotFound ==
  [][/\ StatusFindsExpired =>
          /\ ~lastOp'.ret.isAuthenticated
          /\ currentSession[1].sessionId \notin DOMAIN sessions'
     /\ \A id \in IssuedIds : id \notin DOMAIN sessions => id \notin DOMAIN sessions'
     /\ (RefreshCalled /\ lastOp'.args[1] \in IssuedIds \ DOMAIN sessions) =>
          lastOp'.err = "Session not found"]_vars

\* refreshSession on the id getAuthenticationStatus revoked on expiry
C13_Witness ==
  /\ lastOp.op = "refreshSession"
  /\ lastOp.err = ErrSessionNotFound
  /\ lastOp.args[1] \in Range(udlRevocations)
  /\ currentSession = <<>>

ReadPathCalled ==
  lastOp'.op \in {"getAuthenticationStatus", "validatePermission", "getApiHeaders"}

\* a read path is called with the clock past the current session's expiresAt
ReadFindsExpired ==
  /\ ReadPathCalled
  /\ currentSession # <<>>
  /\ now > ExpiryOf(currentSession[1])

\* C15: whenever a read path finds the current session expired, then by its
\* return the identity provider has been told to revoke that session, the
\* session has no table entry and there is no current session.
C15_ExpiredRevokedOnRead ==
  [][ReadFindsExpired =>
       /\ currentSession[1].sessionId \in Range(udlRevocations')
       /\ currentSession[1].sessionId \notin DOMAIN sessions'
       /\ currentSession' = <<>>]_vars

\* the part of C15 that holds: the expired session is revoked when it still has
\* its table entry, and in every case it leaves the table and the current marker
C15_RevokedWhileInTable ==
  [][ReadFindsExpired =>
       /\ currentSession[1].sessionId \in DOMAIN sessions =>
            udlRevocations' = Append(udlRevocations, currentSession[1].sessionId)
       /\ currentSession[1].sessionId \notin DOMAIN sessions'
       /\ currentSession' = <<>>]_vars

\* logout() is called without an argument while there is a current session
LogoutOfCurrent ==
  /\ lastOp'.op = "logout"
  /\ lastOp'.args[1] = <<>>
  /\ currentSession # <<>>

\* without a current session no step but a successful authenticateUser makes
\* one, and getAuthenticationStatus answers unauthenticated
StaysLoggedOut ==
  (currentSession = <<>> /\ ~(lastOp'.op = "authenticateUser" /\ lastOp'.err = NoError)) =>
    /\ currentSession' = <<>>
    /\ lastOp'.op = "getAuthenticationStatus" => ~lastOp'.ret.isAuthenticated

\* C16: after logout() with a current session S, S has no table entry, the
\* identity provider has been told to revoke S, there is no current session,
\* and getAuthenticationStatus answers unauthenticated until the next
\* successful authenticateUser.
C16_LogoutRevokesCurrent ==
  [][/\ LogoutOfCurrent =>
          /\ currentSession[1].sessionId \notin DOMAIN sessions'
          /\ currentSession[1].sessionId \in Range(udlRevocations')
          /\ "revokeTokensWithUDL" \in Range(lastOp'.calls)
          /\ currentSession' = <<>>
     /\ StaysLoggedOut]_vars

\* the part of C16 that holds: logout() of a current session that still has
\* its table entry
C16_LogoutWhileInTable ==
  [][/\ (LogoutOfCurrent /\ currentSession[1].sessionId \in DOMAIN sessions) =>
          /\ currentSession[1].sessionId \notin DOMAIN sessions'
          /\ udlRevocations' = Append(udlRevocations, currentSession[1].sessionId)
          /\ "revokeTokensWithUDL" \in Range(lastOp'.calls)
          /\ currentSession' = <<>>
     /\ LogoutOfCurrent =>
          /\ currentSession[1].sessionId \notin DOMAIN sessions'
          /\ currentSession' = <<>>
     /\ StaysLoggedOut]_vars

\* logout(id) is called with an id that is not the current session's id
LogoutOfOther ==
  /\ lastOp'.op = "logout"
  /\ lastOp'.args[1] # <<>>
  /\ currentSession # <<>> => lastOp'.args[1][1] # currentSession[1].sessionId

\* the current session, its table entry and the answer of getAuthenticationStatus
\* are the same after the step as before
CurrentSessionKept ==
  /\ currentSession' = currentSession
  /\ \A id \in DOMAIN sessions :
       (currentSession # <<>> /\ id = currentSession[1].sessionId) =>
         (id \in DOMAIN sessions' /\ sessions'[id] = sessions[id])
  /\ statusOf(getCurrentSession.ret)' = statusOf(getCurrentSession.ret)

\* C17 as claimed: logout(id) with an id that is not the current session's id,
\* whether it names another session or none, leaves the current session, its
\* table entry and the answer of getAuthenticationStatus unchanged.
C17_LogoutOfOtherId ==
  [][LogoutOfOther => CurrentSessionKept]_vars

\* C17: logout(id) with a non-empty id that is not the current session's id
\* leaves the current session, its table entry and the answer of
\* getAuthenticationStatus unchanged; logout('') acts as logout() and leaves no
\* current session.
C17_LogoutOfOtherNonEmptyId ==
  [][/\ (LogoutOfOther /\ lastOp'.args[1][1] # <<>>) => CurrentSessionKept
     /\ (lastOp'.op = "logout" /\ lastOp'.args[1] = <<<<>>>>) =>
          /\ currentSession' = <<>>
          /\ currentSession # <<>> => currentSession[1].sessionId \notin DOMAIN sessions']_vars

\* another session was logged out by its id; the current one is still there
C17_Witness ==
  /\ lastOp.op = "logout"
  /\ lastOp.args[1] # <<>>
  /\ lastOp.args[1][1] # <<>>
  /\ lastOp.args[1][1] \in Range(udlRevocations)
  /\ currentSession # <<>>
  /\ currentSession[1].sessionId \in DOMAIN sessions
  /\ currentSession[1].sessionId # lastOp.args[1][1]

\* C17 for an id that names no session: nothing was revoked
C17_WitnessNoSession ==
  /\ lastOp.op = "logout"
  /\ lastOp.args[1] # <<>>
  /\ lastOp.args[1][1] # <<>>
  /\ lastOp.calls = <<>>
  /\ currentSession # <<>>

\* C17 for the empty id: the current session was revoked
C17_WitnessEmptyId ==
  /\ lastOp.op = "logout"
  /\ lastOp.args[1] = <<<<>>>>
  /\ lastOp.calls = <<"revokeTokensWithUDL">>

HeadersCalled == lastOp'.op = "getApiHeaders"

\* the headers returned carry the current session's access token as bearer
\* token and its sessionId as session identifier
HeadersOfCurrent ==
  /\ lastOp'.err = NoError
  /\ lastOp'.ret[1].Authorization = <<"Bearer ", currentSession[1].accessToken>>
  /\ lastOp'.ret[1].XSessionID = currentSession[1].sessionId

\* the classification tags in upper case
UpperCaseTag ==
  [c \in {"unclassified", "cui", "secret", "confidential"} |->
     CASE c = "unclassified" -> "UNCLASSIFIED"
       [] c = "cui" -> "CUI"
       [] c = "secret" -> "SECRET"
       [] c = "confidential" -> "CONFIDENTIAL"]

\* C18 as claimed: getApiHeaders fails with the not-authenticated error when
\* there is no current unexpired session; otherwise its headers carry the
\* current session's accessToken, its classification and its sessionId.
C18_HeadersCarryClassification ==
  [][HeadersCalled =>
       IF UnexpiredCurrent
         THEN /\ HeadersOfCurrent
              /\ lastOp'.ret[1].XClassification = currentSession[1].classification
         ELSE lastOp'.err = "Not authenticated"]_vars

\* C18: getApiHeaders fails with the not-authenticated error when there is no
\* current unexpired session; otherwise its headers carry the current
\* session's accessToken, its classification in upper case and its sessionId.
C18_HeadersCarryUpperCase ==
  [][HeadersCalled =>
       IF UnexpiredCurrent
         THEN /\ HeadersOfCurrent
              /\ lastOp'.ret[1].XClassification =
                   UpperCaseTag[currentSession[1].classification]
         ELSE lastOp'.err = "Not authenticated" /\ lastOp'.ret = <<>>]_vars

\* headers asked after a refresh carry the access token of the refresh
C18_Witness ==
  /\ lastOp.op = "getApiHeaders"
  /\ lastOp.err = NoError
  /\ lastOp.ret[1].Authorization[2] = <<"access", lastOp.ret[1].XSessionID, 1>>
  /\ lastOp.ret[1].XClassification = "SECRET"

\* C18 on an expired session: the call fails and logs the session out
C18_WitnessExpired ==
  /\ lastOp.op = "getApiHeaders"
  /\ lastOp.err = ErrNotAuthenticated
  /\ "revokeTokensWithUDL" \in Range(lastOp.calls)

\* authenticateUser throws at the rewrite of the credential record
RewriteFails ==
  /\ lastOp'.op = "authenticateUser"
  /\ lastOp'.err # NoError
  /\ "writeFile" \in Range(lastOp'.calls)

\* C19: when authenticateUser fails at the rewrite of the credential record
\* with the new lastUsed, the session table holds no new session and the
\* current session is what it was before the call.
C19_AllOrNothing ==
  [][RewriteFails =>
       /\ DOMAIN sessions' \subseteq DOMAIN sessions
       /\ currentSession' = currentSession]_vars

\* what the code does at a failed rewrite: the session that was never returned
\* is in the table and is the current session, and lastUsed is not updated
C19_SessionLeftBehind ==
  [][RewriteFails =>
       /\ Cardinality(DOMAIN sessions' \ DOMAIN sessions) = 1
       /\ currentSession' # <<>>
       /\ currentSession'[1].sessionId \in DOMAIN sessions' \ DOMAIN sessions
       /\ credentialsFile' = credentialsFile]_vars

\* authenticateUser throws one of its three credential errors
LoginRefused ==
  /\ lastOp'.op = "authenticateUser"
  /\ lastOp'.err \in { "No stored credentials found. Please configure UDL credentials first.",
                       "Invalid username", "Invalid password" }

\* C20: an authenticateUser call that fails with the no-credentials, username
\* or password error leaves the session table, the current session and the
\* credential record, lastUsed included, exactly as they were.
C20_FailedLoginFrame ==
  [][LoginRefused =>
       /\ sessions' = sessions
       /\ currentSession' = currentSession
       /\ credentialsFile' = credentialsFile
       /\ udlRevocations' = udlRevocations]_vars

\* a wrong password while a session is current and lastUsed is set
C20_Witness ==
  /\ lastOp.op = "authenticateUser"
  /\ lastOp.err = ErrInvalidPassword
  /\ UnexpiredCurrent
  /\ currentSession[1].sessionId \in DOMAIN sessions
  /\ credentialsFile # <<>>
  /\ credentialsFile[1].lastUsed # <<>>

\* C20 with the store cleared while a session is current
C20_WitnessNoCredentials ==
  /\ lastOp.op = "authenticateUser"
  /\ lastOp.err = ErrNoCredentials
  /\ UnexpiredCurrent

\* C20 with a wrong username while a session is current
C20_WitnessUsername ==
  /\ lastOp.op = "authenticateUser"
  /\ lastOp.err = ErrInvalidUsername
  /\ UnexpiredCurrent

\* how many times a call invoked the identity-provider login
LoginCalls(calls) == Cardinality({i \in 1..Len(calls) : calls[i] = "authenticateWithUDL"})

\* C21: a successful authenticateUser invoked the identity-provider login
\* exactly once; one refused by the local credential checks did not invoke it;
\* and when the login fails authenticateUser fails, the session table and the
\* current session are what they were and the credential record, lastUsed
\* included, is not rewritten.
C21_LoginOncePerSuccess ==
  [][lastOp'.op = "authenticateUser" =>
       /\ lastOp'.err = NoError => LoginCalls(lastOp'.calls) = 1
       /\ LoginRefused => LoginCalls(lastOp'.calls) = 0
       /\ (LoginCalls(lastOp'.calls) = 1 /\ "writeFile" \notin Range(lastOp'.calls)
             /\ lastOp'.err # NoError) =>
            /\ lastOp'.ret = <<>>
            /\ sessions' = sessions
            /\ currentSession' = currentSession
            /\ credentialsFile' = credentialsFile]_vars

\* the login failed while another session was current: that session stays
C21_Witness ==
  /\ lastOp.op = "authenticateUser"
  /\ lastOp.err = ErrUDLFailed
  /\ UnexpiredCurrent
  /\ Cardinality(DOMAIN sessions) = 1
  /\ credentialsFile # <<>>
  /\ credentialsFile[1].lastUsed # <<>>

\* C21 on a success: one login
C21_WitnessSuccess ==
  /\ Authenticated
  /\ LoginCalls(lastOp.calls) = 1
  /\ nextSessionId = 2

\* logout() follows logout() with no call in between
SecondLogout ==
  /\ lastOp.op = "logout" /\ lastOp.args[1] = <<>>
  /\ lastOp'.op = "logout" /\ lastOp'.args[1] = <<>>

\* clearStoredCredentials() follows clearStoredCredentials()
SecondClear ==
  /\ lastOp.op = "clearStoredCredentials"
  /\ lastOp'.op = "clearStoredCredentials"

\* the session table, the current session, the credential file and the
\* revocations sent are the same after the step as before
NothingChanges ==
  /\ sessions' = sessions
  /\ currentSession' = currentSession
  /\ credentialsFile' = credentialsFile
  /\ udlRevocations' = udlRevocations

\* C22: a logout() right after a logout(), and a clearStoredCredentials()
\* right after a clearStoredCredentials(), succeed and change neither the
\* session table, nor the current session, nor the credential file; the second
\* logout() sends no revocation; and logout() without a current session
\* changes nothing.
C22_Idempotent ==
  [][/\ SecondLogout =>
          (lastOp'.err = NoError /\ lastOp'.calls = <<>> /\ NothingChanges)
     /\ SecondClear => (lastOp'.err = NoError /\ NothingChanges)
     /\ (lastOp'.op = "logout" /\ lastOp'.args[1] = <<>> /\ currentSession = <<>>) =>
          (lastOp'.err = NoError /\ lastOp'.calls = <<>> /\ NothingChanges)]_vars

\* a logout() that found nothing to revoke, after the only session was revoked
C22_Witness ==
  /\ lastOp.op = "logout"
  /\ lastOp.args[1] = <<>>
  /\ lastOp.err = NoError
  /\ lastOp.calls = <<>>
  /\ nextSessionId = 1
  /\ udlRevocations = <<generateSessionId(1)>>
  /\ currentSession = <<>>

\* C22 for clearStoredCredentials: no file, and a session issued before
C22_WitnessClear ==
  /\ lastOp.op = "clearStoredCredentials"
  /\ lastOp.err = NoError
  /\ credentialsFile = <<>>
  /\ nextSessionId > 0

\* C26: no step changes the permissions or the classification of a session
\* that stays in the session table or stays the current session; whatever the
\* credential file holds now, every session carries the permissions the
\* catalog gives for its own classification; and a session enters the table
\* only by a successful authenticateUser, with the classification stored at
\* that call.
C26_FixedAtIssuance ==
  [][/\ \A id \in DOMAIN sessions \cap DOMAIN sessions' :
          /\ sessions'[id].permissions = sessions[id].permissions
          /\ sessions'[id].classification = sessions[id].classification
     /\ ( /\ currentSession # <<>> /\ currentSession' # <<>>
          /\ currentSession'[1].sessionId = currentSession[1].sessionId ) =>
            /\ currentSession'[1].permissions = currentSession[1].permissions
            /\ currentSession'[1].classification = currentSession[1].classification
     /\ \A id \in DOMAIN sessions' \ DOMAIN sessions :
          /\ lastOp'.op = "authenticateUser" /\ lastOp'.err = NoError
          /\ credentialsFile # <<>>
          /\ sessions'[id].classification = credentialsFile[1].classification
          /\ sessions'[id].classification \in Tiers =>
               Range(sessions'[id].permissions) = CatalogOf(sessions'[id].classification)]_vars

\* a session refreshed after the stored classification changed keeps its tier
C26_Witness ==
  /\ lastOp.op = "refreshSession"
  /\ lastOp.err = NoError
  /\ lastOp.ret[1].classification = "unclassified"
  /\ Cardinality(Range(lastOp.ret[1].permissions)) = 5
  /\ credentialsFile # <<>>
  /\ credentialsFile[1].classification = "secret"

\* C26: a new authenticateUser yields the new tier while the old session stays
C26_WitnessNewTier ==
  /\ Authenticated
  /\ lastOp.ret[1].classification = "cui"
  /\ \E id \in DOMAIN sessions : sessions[id].classification = "unclassified"

\* the ids issued so far that have no entry in the session table
RemovedIds == IssuedIds \ DOMAIN sessions

\* C27: once an issued sessionId has lost its table entry, no step puts it
\* back into the table, no step makes it the current session's id, no
\* refreshSession on it succeeds, and no read path answers with it as the
\* authenticated session.
C27_Terminal ==
  [][\A id \in RemovedIds :
       /\ id \notin DOMAIN sessions'
       /\ (currentSession = <<>> \/ currentSession[1].sessionId # id) =>
            (currentSession' = <<>> \/ currentSession'[1].sessionId # id)
       /\ (RefreshCalled /\ lastOp'.args[1] = id) => lastOp'.err # NoError
       /\ (lastOp'.op = "getAuthenticationStatus" /\ lastOp'.ret.isAuthenticated) =>
            lastOp'.ret.sessionId # id
       /\ (lastOp'.op = "getApiHeaders" /\ lastOp'.err = NoError) =>
            lastOp'.ret[1].XSessionID # id
       /\ (lastOp'.op = "validatePermission" /\ lastOp'.ret) =>
            currentSession[1].sessionId # id]_vars

\* a login after the first session was revoked: the revoked id is not back
C27_Witness ==
  /\ Authenticated
  /\ nextSessionId = 2
  /\ udlRevocations = <<generateSessionId(1)>>
  /\ DOMAIN sessions = {generateSessionId(2)}

\* C27 for a session purged on expiry by refreshSession: a later refreshSession
\* on it fails
C27_WitnessPurged ==
  /\ lastOp.op = "refreshSession"
  /\ lastOp.err = ErrSessionNotFound
  /\ lastOp.args[1] \in IssuedIds
  /\ udlRevocations = <<>>

\* C28: in every state, a current session has an entry in the session table
\* under its sessionId, and that entry is the current session.
C28_CurrentInTable ==
  currentSession # <<>> =>
    /\ currentSession[1].sessionId \in DOMAIN sessions
    /\ sessions[currentSession[1].sessionId] = currentSession[1]

\* the part of C28 that holds: an entry under the current session's id is the
\* current session, and a current session without an entry is expired
C28_CurrentEntryAgrees ==
  currentSession # <<>> =>
    IF currentSession[1].sessionId \in DOMAIN sessions
      THEN sessions[currentSession[1].sessionId] = currentSession[1]
      ELSE /\ now > ExpiryOf(currentSession[1])
           /\ currentSession[1].sessionId \notin Range(udlRevocations)

\* authenticateUser succeeds while there is a current session
LoginOverCurrent ==
  /\ lastOp'.op = "authenticateUser"
  /\ lastOp'.err = NoError
  /\ currentSession # <<>>

\* C29: a successful authenticateUser while session A is current leaves A's
\* table entry as it was, sends no revocation and makes another session
\* current; an entry leaves the table only by a logout or once it is expired;
\* and refreshSession on an entry that is not expired succeeds.
C29_LoginKeepsOldSession ==
  [][/\ LoginOverCurrent =>
          /\ currentSession[1].sessionId \in DOMAIN sessions =>
               /\ currentSession[1].sessionId \in DOMAIN sessions'
               /\ sessions'[currentSession[1].sessionId] =
                    sessions[currentSession[1].sessionId]
          /\ udlRevocations' = udlRevocations
          /\ currentSession'[1].sessionId # currentSession[1].sessionId
     /\ \A id \in DOMAIN sessions \ DOMAIN sessions' :
          lastOp'.op = "logout" \/ now > ExpiryOf(sessions[id])
     /\ ( /\ RefreshCalled
          /\ lastOp'.args[1] \in DOMAIN sessions
          /\ now <= ExpiryOf(sessions[lastOp'.args[1]]) ) =>
            lastOp'.err = NoError]_vars

\* the first session refreshed at its deadline after a second login replaced it
\* as the current session
C29_Witness ==
  /\ lastOp.op = "refreshSession"
  /\ lastOp.err = NoError
  /\ lastOp.args[1] = generateSessionId(1)
  /\ lastOp.at > 0
  /\ currentSession # <<>>
  /\ currentSession[1].sessionId = generateSessionId(2)
  /\ udlRevocations = <<>>

\* a step of storeCredentials or clearStoredCredentials
CredentialsChanged ==
  lastOp'.op \in {"storeCredentials", "clearStoredCredentials"}

\* what the three read paths would answer in this state
ReadAnswers ==
  [ status |-> statusOf(getCurrentSession.ret),
    permissions |-> [p \in QueriedPermissions |->
                       permissionOf(p, getCurrentSession.ret)],
    headers |-> headersOf(getCurrentSession.ret) ]

\* C30: a storeCredentials or clearStoredCredentials step leaves the session
\* table, the current session and the revocation log unchanged, and
\* getAuthenticationStatus, validatePermission and getApiHeaders answer after
\* it what they would have answered before it.
C30_CredentialsLeaveSessions ==
  [][CredentialsChanged =>
       /\ sessions' = sessions
       /\ currentSession' = currentSession
       /\ udlRevocations' = udlRevocations
       /\ ReadAnswers' = ReadAnswers]_vars

\* the credentials were overwritten with another user's while a session of the
\* first user is current and unexpired, and the read paths still answer for it
C30_Witness ==
  /\ lastOp.op = "storeCredentials"
  /\ currentSession # <<>>
  /\ ~isExpired(currentSession[1])
  /\ lastOp.args[1] # currentSession[1].username
  /\ ReadAnswers.status.ret.isAuthenticated
  /\ ReadAnswers.headers.err = NoError

\* the credentials were deleted while a session is current and unexpired
C30_WitnessCleared ==
  /\ lastOp.op = "clearStoredCredentials"
  /\ credentialsFile = <<>>
  /\ currentSession # <<>>
  /\ ~isExpired(currentSession[1])
  /\ ReadAnswers.status.ret.isAuthenticated
  /\ ReadAnswers.headers.err = NoError

\* caller c's suspended read path returns in this step
ReadPathReturns(c) ==
  /\ inFlight[c] # <<>>
  /\ inFlight[c][1].op \in {"getAuthenticationStatus", "validatePermission",
                            "getApiHeaders"}
  /\ inFlight'[c] = <<>>

\* the answer of a read path says that the caller is authenticated
AnswersAuthenticated(op, out) ==
  CASE op = "getAuthenticationStatus" -> out.ret.isAuthenticated
    [] op = "validatePermission" -> out.ret
    [] op = "getApiHeaders" -> out.err = NoError

\* C23: a read path that answers for session S as authenticated, and a
\* refreshSession that returns S, do so only while the identity provider has
\* not been told to revoke S.
C23_NoTornRead ==
  [][/\ \A c \in Callers :
          ( /\ ReadPathReturns(c)
            /\ inFlight[c][1].session # <<>>
            /\ AnswersAuthenticated(inFlight[c][1].op,
                             answerOf(inFlight[c][1].op, inFlight[c][1].args,
                                      inFlight[c][1].session)) ) =>
            inFlight[c][1].session[1].sessionId \notin Range(udlRevocations)
     /\ (RefreshCalled /\ lastOp'.err = NoError) =>
          lastOp'.args[1] \notin Range(udlRevocations)]_vars

\* caller c's logout() (no sessionId), suspended in the revocation of a
\* session that is not the current one any more, resumes in this step
LogoutResumesOverNewCurrent(c) ==
  /\ inFlight[c] # <<>>
  /\ inFlight[c][1].op = "logout"
  /\ inFlight[c][1].sessionId = <<>>
  /\ inFlight'[c] = <<>>
  /\ currentSession # <<>>
  /\ currentSession[1].sessionId # inFlight[c][1].targetSessionId

\* C24: when a logout() resumes after the revocation of session A while
\* another session B is current, B is still current after the logout.
C24_LogoutKeepsNewCurrent ==
  [][\A c \in Callers :
       LogoutResumesOverNewCurrent(c) => currentSession' = currentSession]_vars

\* caller c's authenticateUser rewrites an existing credential record in this
\* step
RewritesRecord(c) ==
  /\ inFlight[c] # <<>>
  /\ inFlight[c][1].op = "authenticateUser"
  /\ inFlight[c][1].pc = "write"
  /\ inFlight'[c] = <<>>
  /\ credentialsFile # <<>>

\* C25: the record authenticateUser writes differs from the record that was
\* in the file just before the write in lastUsed only.
C25_OnlyLastUsed ==
  [][\A c \in Callers :
       RewritesRecord(c) =>
         /\ credentialsFile' # <<>>
         /\ [credentialsFile'[1] EXCEPT !.lastUsed = <<>>] =
              [credentialsFile[1] EXCEPT !.lastUsed = <<>>]]_vars

====
